---------------------------- MODULE Spec2Model ----------------------------
(***************************************************************************)
(* A model of PerfectNumbersRoot.c: main scans a range of integers, tests  *)
(* each with isPerfectNumber, and for every perfect number prints its      *)
(* factors (displayFactors), the library square root (displayExpectedSqrt) *)
(* and the Babylonian square root with its iteration count                 *)
(* (computeSquareRoot, getInitialGuess).                                   *)
(***************************************************************************)
EXTENDS Integers, Sequences, FiniteSets, TLC

VARIABLES
    pc,             \* the statement main (or the function it called) is at
    lower,          \* RANGE_LOWER_BOUND of this build
    upper,          \* RANGE_UPPER_BOUND of this build
    intMax,         \* INT_MAX of this build's int
    count,          \* main's loop variable
    tests,          \* how many times isPerfectNumber has been called
    number,         \* isPerfectNumber's argument (of the last call)
    pcount,         \* isPerfectNumber's loop variable
    sum,            \* isPerfectNumber's sum
    perfect,        \* what the last finished isPerfectNumber call returned
    fcount,         \* displayFactors' loop variable
    out,            \* the lines written to stdout so far
    radicand,       \* computeSquareRoot's argument
    guess,          \* computeSquareRoot's guess
    previousGuess,  \* computeSquareRoot's previousGuess
    iterations,     \* computeSquareRoot's iterations
    diffs,          \* fabs(previousGuess - guess) of each refinement of this call
    returned        \* what the last computeSquareRoot call returned

mainVars == <<pc, lower, upper, intMax, count, fcount, out>>
testVars == <<tests, number, pcount, sum, perfect>>
sqrtVars == <<radicand, guess, previousGuess, iterations, diffs, returned>>
vars == <<mainVars, testVars, sqrtVars>>

-----------------------------------------------------------------------------
(* Program constants. *)

RANGE_UPPER_BOUND == 10000
RANGE_LOWER_BOUND == 1
PRECISION == 15
BASE_E == 10
INT_MAX == 2147483647

(* Bounds of the model. *)

MaxBound == 7       \* range bounds of a generalised build are in -MaxBound..MaxBound
MaxWidth == 12      \* the widest int of the narrow builds
MinWidth == 4       \* the narrowest
MaxFactorArg == 130 \* displayFactors is driven with 1..MaxFactorArg
MaxRadicand == 10   \* computeSquareRoot is driven with -MaxRadicand..MaxRadicand
MaxIterations == 40 \* no call of computeSquareRoot is followed further

-----------------------------------------------------------------------------
(* C integer arithmetic. *)

\* a % b of C (the sign of the dividend), for b > 0
CRem(a, b) == IF a >= 0 THEN a % b ELSE -((-a) % b)

\* a / b of C (truncation toward zero), for b > 0
CDiv(a, b) == IF a >= 0 THEN a \div b ELSE -((-a) \div b)

\* an addition that stops at the ends of the range where the int wraps
WrapAdd_Saturating(a, b, max) ==
    IF b >= 0 /\ a > max - b THEN max
    ELSE IF b < 0 /\ a < ((-max) - 1) - b THEN (-max) - 1
    ELSE a + b

\* a + b in an int of maximum max, overflow wrapping around (no
\* intermediate value leaves the int's range)
WrapAdd(a, b, max) ==
    IF b >= 0
    THEN IF a > max - b
         THEN ((a - (max - b)) - 1) + ((-max) - 1)
         ELSE a + b
    ELSE IF a < ((-max) - 1) - b
         THEN ((a + (max + b)) + 1) + (max + 1)
         ELSE a + b

\* a - b in an int of maximum max, overflow wrapping around
WrapSub(a, b, max) ==
    IF b >= 0
    THEN IF a < ((-max) - 1) + b
         THEN ((a + (max - b)) + 1) + (max + 1)
         ELSE a - b
    ELSE IF a > max + b
         THEN (((a - max) - 1) - b) + ((-max) - 1)
         ELSE a - b

-----------------------------------------------------------------------------
(* Natural numbers of any size: TLC's integers are 32 bits wide, the        *)
(* significands of double (53 bits) and of long double (64 bits) are not.   *)
(* A natural number is the sequence of its base-2^15 digits, lowest first,  *)
(* without leading zeros; <<>> is 0. Carries are computed by look-ahead     *)
(* rather than digit after digit, to keep TLC's evaluation shallow.         *)

LimbBits == 15
Base == 2 ^ LimbBits

Max(S) == CHOOSE x \in S : \A y \in S : y <= x
Min(S) == CHOOSE x \in S : \A y \in S : x <= y

Limb(a, i) == IF i >= 1 /\ i <= Len(a) THEN a[i] ELSE 0

BNorm(a) ==
    LET nz == {i \in 1..Len(a) : a[i] # 0}
    IN  IF nz = {} THEN <<>> ELSE SubSeq(a, 1, Max(nz))

\* a natural number below 2^31
BFromInt(n) == BNorm(<<n % Base, (n \div Base) % Base, n \div (Base * Base)>>)

\* -1, 0 or 1 as a < b, a = b, a > b
BCmp(a, b) ==
    IF Len(a) < Len(b) THEN -1
    ELSE IF Len(a) > Len(b) THEN 1
    ELSE LET diff == {i \in 1..Len(a) : a[i] # b[i]}
         IN  IF diff = {} THEN 0
             ELSE IF a[Max(diff)] < b[Max(diff)] THEN -1 ELSE 1

BAdd(a, b) ==
    LET n == (IF Len(a) > Len(b) THEN Len(a) ELSE Len(b)) + 1
        s == [i \in 1..n |-> Limb(a, i) + Limb(b, i)]
        carry(i) == \E j \in 1..(i - 1) :
                        /\ s[j] >= Base
                        /\ \A k \in (j + 1)..(i - 1) : s[k] = Base - 1
    IN  BNorm([i \in 1..n |-> (s[i] + (IF carry(i) THEN 1 ELSE 0)) % Base])

\* a - b, for a >= b
BSub(a, b) ==
    LET borrow(i) == \E j \in 1..(i - 1) :
                         /\ a[j] < Limb(b, j)
                         /\ \A k \in (j + 1)..(i - 1) : a[k] = Limb(b, k)
    IN  BNorm([i \in 1..Len(a) |->
                  ((a[i] - Limb(b, i)) - (IF borrow(i) THEN 1 ELSE 0)) % Base])

\* a * Base^q
BShiftLimbs(a, q) == IF a = <<>> THEN <<>> ELSE [i \in 1..q |-> 0] \o a

\* a * k, for 0 <= k < Base
BMulSmall(a, k) ==
    BAdd(BNorm([i \in 1..Len(a) |-> (a[i] * k) % Base]),
         BShiftLimbs(BNorm([i \in 1..Len(a) |-> (a[i] * k) \div Base]), 1))

\* a times the digits lo..hi of b
RECURSIVE BMulDigits(_, _, _, _)
BMulDigits(a, b, lo, hi) ==
    IF lo = hi THEN BMulSmall(a, b[lo])
    ELSE LET mid == (lo + hi) \div 2
         IN  BAdd(BMulDigits(a, b, lo, mid),
                  BShiftLimbs(BMulDigits(a, b, mid + 1, hi), (mid + 1) - lo))

BMul(a, b) == IF a = <<>> \/ b = <<>> THEN <<>> ELSE BMulDigits(a, b, 1, Len(b))

\* a * 2^k
BShl(a, k) == BShiftLimbs(BMulSmall(a, 2 ^ (k % LimbBits)), k \div LimbBits)

\* a \div 2^k
BShr(a, k) ==
    LET q == k \div LimbBits
        r == k % LimbBits
    IN  BNorm([i \in 1..(Len(a) - q) |->
                  (Limb(a, i + q) \div 2 ^ r)
                  + (Limb(a, i + q + 1) % 2 ^ r) * 2 ^ (LimbBits - r)])

\* the number of bits of n, 0 <= n < Base
IntBitLen(n) == Cardinality({k \in 0..(LimbBits - 1) : 2 ^ k <= n})

\* the number of bits of a
BBitLen(a) ==
    IF a = <<>> THEN 0 ELSE LimbBits * (Len(a) - 1) + IntBitLen(a[Len(a)])

\* bit i of a, bit 0 the lowest
BBit(a, i) == (Limb(a, i \div LimbBits + 1) \div (2 ^ (i % LimbBits))) % 2

\* the number of zero bits at the low end of a, for a > 0
BTrailingZeros(a) ==
    LET z == Min({i \in 1..Len(a) : a[i] # 0})
    IN  LimbBits * (z - 1) + Cardinality({k \in 1..LimbBits : a[z] % 2 ^ k = 0})

\* the next quotient digit of long division: the largest q < Base with
\* b * q <= r, for r < b * Base and b's top digit at least Base / 2; the
\* estimate from the top digits is at most 2 too large
BDivDigit(r, b) ==
    LET n   == Len(b)
        est == (Limb(r, n + 1) * Base + Limb(r, n)) \div b[n]
        top == IF est > Base - 1 THEN Base - 1 ELSE est
    IN  Max({q \in {top, top - 1, top - 2} \cup {0} :
                 q >= 0 /\ BCmp(BMulSmall(b, q), r) <= 0})

\* long division of a by b from digit i of a down, rem the remainder of the
\* digits above: <<the quotient's digits i..1, the remainder>>
RECURSIVE BDivModAt(_, _, _, _)
BDivModAt(a, b, i, rem) ==
    IF i = 0 THEN <<<<>>, rem>>
    ELSE LET r    == BNorm(<<a[i]>> \o rem)
             q    == BDivDigit(r, b)
             rest == BDivModAt(a, b, i - 1, BSub(r, BMulSmall(b, q)))
         IN  <<rest[1] \o <<q>>, rest[2]>>

\* <<a \div b, a % b>>, for b > 0: both are scaled to make b's top digit at
\* least Base / 2; the digits of a above b's length are below b
BDivMod(a, b) ==
    LET s    == LimbBits - IntBitLen(b[Len(b)])
        as   == BShl(a, s)
        bs   == BShl(b, s)
        skip == IF Len(as) >= Len(bs) THEN Len(bs) - 1 ELSE Len(as)
        qr   == BDivModAt(as, bs, Len(as) - skip,
                          SubSeq(as, (Len(as) - skip) + 1, Len(as)))
    IN  <<BNorm(qr[1]), BShr(qr[2], s)>>

\* the largest r with r * r <= n, for 0 <= n < 2^30
IntSqrt(n) == CHOOSE r \in 0..(Base - 1) : r * r <= n /\ n < (r + 1) * (r + 1)

\* the largest r with r * r <= a, by Newton's iteration down from x >= r
RECURSIVE BSqrtFrom(_, _)
BSqrtFrom(a, x) ==
    LET y == BShr(BAdd(x, BDivMod(a, x)[1]), 1)
    IN  IF BCmp(y, x) >= 0 THEN x ELSE BSqrtFrom(a, y)

\* the largest r with r * r <= a; the iteration starts from the root of a's
\* top 30 bits (or so), rounded up
BSqrt(a) ==
    LET len  == BBitLen(a)
        k    == IF len <= 30 THEN 0 ELSE (len - 29) \div 2
        top  == BShr(a, 2 * k)
        t    == Limb(top, 1) + Limb(top, 2) * Base
    IN  IF a = <<>> THEN <<>>
        ELSE BSqrtFrom(a, BShl(BFromInt(IntSqrt(t) + 1), k))

\* BASE_E^k
RECURSIVE BPow10(_)
BPow10(k) ==
    IF k = 0 THEN <<1>>
    ELSE IF k % 2 = 1 THEN BMulSmall(BPow10(k - 1), BASE_E)
    ELSE LET h == BPow10(k \div 2) IN BMul(h, h)

-----------------------------------------------------------------------------
(* Binary floating point. A value is [k, neg, m, e]: k = "fin" is the       *)
(* number (-1)^neg * m * 2^e with m odd (or m = 0, e = 0), k = "inf" an     *)
(* infinity, k = "nan" a NaN. Every operation rounds its exact result to    *)
(* the p significant bits of its C type, to nearest, ties to even (double:  *)
(* p = 53; long double: p = 64). Exponent range is not modelled: no value   *)
(* of this program leaves it.                                               *)

DBL_MANT_DIG == 53
LDBL_MANT_DIG == 64

NaN == [k |-> "nan", neg |-> FALSE, m |-> <<>>, e |-> 0]
Inf(neg) == [k |-> "inf", neg |-> neg, m |-> <<>>, e |-> 0]
Zero == [k |-> "fin", neg |-> FALSE, m |-> <<>>, e |-> 0]

\* (-1)^neg * m * 2^e, with m made odd
Fin(neg, m, e) ==
    IF m = <<>> THEN Zero
    ELSE LET tz == BTrailingZeros(m)
         IN  [k |-> "fin", neg |-> neg, m |-> BShr(m, tz), e |-> e + tz]

\* m cut to its top p bits, rounded to nearest, ties to even; sticky says
\* that the exact value is a little above m
RoundBits(m, sticky, p) ==
    LET d    == BBitLen(m) - p
        q    == BShr(m, d)
        low  == BSub(m, BShl(q, d))
        half == BShl(<<1>>, d - 1)
        c    == BCmp(low, half)
        up   == c > 0 \/ (c = 0 /\ (sticky \/ BBit(q, 0) = 1))
    IN  IF up THEN BAdd(q, <<1>>) ELSE q

\* (-1)^neg * (m * 2^e, or a little more if sticky) rounded to p bits;
\* sticky comes only with an m of more than p bits
FRound(neg, m, e, sticky, p) ==
    LET len == BBitLen(m)
    IN  IF m = <<>> THEN Zero
        ELSE IF len > p THEN Fin(neg, RoundBits(m, sticky, p), e + (len - p))
        ELSE Fin(neg, m, e)

\* the int n as a floating-point value (exact: an int has at most 32 bits)
FFromInt(n) == IF n < 0 THEN Fin(TRUE, BFromInt(-n), 0) ELSE Fin(FALSE, BFromInt(n), 0)

FNeg(a) == IF a.k = "nan" \/ a = Zero THEN a ELSE [a EXCEPT !.neg = ~a.neg]

FAbs(a) == IF a.k = "nan" THEN a ELSE [a EXCEPT !.neg = FALSE]

\* the significands of finite a and b on their common exponent
Aligned(a, b) ==
    LET e == IF a.e < b.e THEN a.e ELSE b.e
    IN  [e |-> e, ma |-> BShl(a.m, a.e - e), mb |-> BShl(b.m, b.e - e)]

\* a + b rounded to p bits
FAdd(a, b, p) ==
    IF a.k = "nan" \/ b.k = "nan" THEN NaN
    ELSE IF a.k = "inf" /\ b.k = "inf" THEN (IF a.neg = b.neg THEN a ELSE NaN)
    ELSE IF a.k = "inf" THEN a
    ELSE IF b.k = "inf" THEN b
    ELSE LET al == Aligned(a, b)
             c  == BCmp(al.ma, al.mb)
         IN  IF a.neg = b.neg THEN FRound(a.neg, BAdd(al.ma, al.mb), al.e, FALSE, p)
             ELSE IF c = 0 THEN Zero
             ELSE IF c > 0 THEN FRound(a.neg, BSub(al.ma, al.mb), al.e, FALSE, p)
             ELSE FRound(b.neg, BSub(al.mb, al.ma), al.e, FALSE, p)

\* a - b rounded to p bits
FSub(a, b, p) == FAdd(a, FNeg(b), p)

\* a * b rounded to p bits
FMul(a, b, p) ==
    IF a.k = "nan" \/ b.k = "nan" THEN NaN
    ELSE IF a.k = "inf" \/ b.k = "inf"
         THEN (IF a = Zero \/ b = Zero THEN NaN ELSE Inf(a.neg # b.neg))
    ELSE FRound(a.neg # b.neg, BMul(a.m, b.m), a.e + b.e, FALSE, p)

\* a / b rounded to p bits
FDiv(a, b, p) ==
    IF a.k = "nan" \/ b.k = "nan" THEN NaN
    ELSE IF a.k = "inf" THEN (IF b.k = "inf" THEN NaN ELSE Inf(a.neg # b.neg))
    ELSE IF b.k = "inf" THEN Zero
    ELSE IF b.m = <<>> THEN (IF a.m = <<>> THEN NaN ELSE Inf(a.neg # b.neg))
    ELSE IF a.m = <<>> THEN Zero
    ELSE LET need == ((p + 2) + BBitLen(b.m)) - BBitLen(a.m)
             s    == IF need > 0 THEN need ELSE 0
             qr   == BDivMod(BShl(a.m, s), b.m)
         IN  FRound(a.neg # b.neg, qr[1], (a.e - s) - b.e, qr[2] # <<>>, p)

\* the square root of a rounded to p bits
FSqrt(a, p) ==
    IF a.k = "nan" THEN NaN
    ELSE IF a.m = <<>> THEN Zero
    ELSE IF a.neg THEN NaN
    ELSE IF a.k = "inf" THEN a
    ELSE LET odd  == a.e % 2
             m1   == BShl(a.m, odd)
             e1   == a.e - odd
             need == (2 * (p + 2)) - BBitLen(m1)
             s    == IF need > 0 THEN (need + 1) \div 2 ELSE 0
             big  == BShl(m1, 2 * s)
             r    == BSqrt(big)
         IN  FRound(FALSE, r, (e1 \div 2) - s, BMul(r, r) # big, p)

\* a > b
FGt(a, b) ==
    IF a.k = "nan" \/ b.k = "nan" THEN FALSE
    ELSE IF a.k = "inf" THEN ~a.neg /\ ~(b.k = "inf" /\ ~b.neg)
    ELSE IF b.k = "inf" THEN b.neg
    ELSE LET al == Aligned(a, b)
             c  == BCmp(al.ma, al.mb)
         IN  IF a.neg /\ b.neg THEN c < 0
             ELSE IF a.neg THEN FALSE
             ELSE IF b.neg THEN (a.m # <<>> \/ b.m # <<>>)
             ELSE c > 0

\* the conversion of a to a type of p bits
FConvert(a, p) == IF a.k = "fin" THEN FRound(a.neg, a.m, a.e, FALSE, p) ELSE a

-----------------------------------------------------------------------------
(* isPerfectNumber *)

\* number % 2 == 1
IsOdd(number_) == CRem(number_, 2) = 1

\* a loop bound that stops before the square root
SqrtBound_Strict(count_, number_) ==
    /\ number_ >= 0
    /\ count_ < number_ \div count_

\* count <= sqrt(number): sqrt of a negative number is NaN, and every
\* comparison with NaN is false; for number >= 0 the correctly rounded
\* double sqrt(number) is at least the integer count exactly when
\* count * count <= number.
SqrtBound(count_, number_) ==
    /\ number_ >= 0
    /\ count_ <= number_ \div count_

\* a loop body that leaves the paired divisor out
PairBody_NoPair(number_, count_, sum_, max) ==
    IF CRem(number_, count_) = 0 THEN WrapAdd(sum_, count_, max) ELSE sum_

\* the body of the for loop, on the running sum
PairBody(number_, count_, sum_, max) ==
    IF CRem(number_, count_) = 0
    THEN LET pair == CDiv(number_, count_)
         IN  IF count_ = pair
             THEN WrapAdd(sum_, count_, max)
             ELSE WrapAdd(WrapAdd(sum_, count_, max), pair, max)
    ELSE sum_

\* a return that compares the sum with number still in it
AdjustSum_NoSubtract(sum_, number_, max) == sum_

\* sum -= number
AdjustSum(sum_, number_, max) == WrapSub(sum_, number_, max)

-----------------------------------------------------------------------------
(* Output lines: the function that wrote the line, its argument, and what   *)
(* it printed after the argument (integers, or a floating-point value).     *)
(* The decimal rendering of %.15Lf is not modelled.                         *)

Line(kind, arg, items, value) ==
    [kind |-> kind, arg |-> arg, items |-> items, value |-> value]

-----------------------------------------------------------------------------
(* getInitialGuess and computeSquareRoot. The radicand is an int converted  *)
(* to double, as main passes it.                                            *)

One == FFromInt(1)
Two == FFromInt(2)

\* the int that finite a is, for an a that is one
IntOf(a) ==
    LET v == Limb(a.m, 1) * 2 ^ a.e
    IN  IF a.neg THEN -v ELSE v

RECURSIVE CeilLog10From(_, _)
CeilLog10From(x, k) ==
    IF FGt(x, Fin(FALSE, BPow10(k), 0)) THEN CeilLog10From(x, k + 1) ELSE k

\* ceil(log10(x)): log10 of a negative number is NaN, log10(0) is -infinity;
\* for x >= 1 it is the least k with 10^k >= x
CeilLog10(x) ==
    IF x.k = "nan" THEN NaN
    ELSE IF x.m = <<>> /\ x.k = "fin" THEN Inf(TRUE)
    ELSE IF x.neg THEN NaN
    ELSE IF x.k = "inf" THEN x
    ELSE FFromInt(CeilLog10From(x, 0))

\* pow(BASE_E, y), correctly rounded, for a y that is a multiple of 1/2:
\* 10^(h/2) is 10^(h/2) for even h, the square root of 10^h for odd h, and
\* 1 / 10^(-h/2) for negative even h
Pow10(y) ==
    IF y.k = "nan" THEN NaN
    ELSE IF y.k = "inf" THEN (IF y.neg THEN Zero ELSE y)
    ELSE LET h == IntOf(FMul(y, Two, DBL_MANT_DIG))
         IN  IF h < 0
             THEN FDiv(One, Fin(FALSE, BPow10((-h) \div 2), 0), DBL_MANT_DIG)
             ELSE IF h % 2 = 0
             THEN FRound(FALSE, BPow10(h \div 2), 0, FALSE, DBL_MANT_DIG)
             ELSE FSqrt(Fin(FALSE, BPow10(h), 0), DBL_MANT_DIG)

getInitialGuess(radicand_) ==
    LET digits == CeilLog10(radicand_)
    IN  Pow10(FDiv(digits, Two, DBL_MANT_DIG))

\* limit = pow(BASE_E, PRECISION * -1)
Limit == Pow10(FFromInt(PRECISION * (-1)))

\* (1.0/2.0) * (guess + (radicand / guess)), in long double
Refine(radicand_, guess_) ==
    FMul(FDiv(One, Two, DBL_MANT_DIG),
         FAdd(guess_, FDiv(radicand_, guess_, LDBL_MANT_DIG), LDBL_MANT_DIG),
         LDBL_MANT_DIG)

\* fabs(previousGuess - guess): the long double difference, converted to
\* fabs's double parameter
AbsDiff(previousGuess_, guess_) ==
    FAbs(FConvert(FSub(previousGuess_, guess_, LDBL_MANT_DIG), DBL_MANT_DIG))

\* the while condition
Unconverged(diff) == FGt(diff, Limit)

\* a counter that starts at zero
FirstIteration_Zero == 1 - 1

\* the iteration counter's start
FirstIteration == 1

-----------------------------------------------------------------------------
(* main *)

InitSqrtVars ==
    /\ radicand = Zero
    /\ guess = Zero
    /\ previousGuess = Zero
    /\ iterations = 0
    /\ diffs = <<>>
    /\ returned = Zero

InitTestVars ==
    /\ tests = 0
    /\ number = 0
    /\ pcount = 0
    /\ sum = 0
    /\ perfect = FALSE

Init ==
    /\ pc = "loop"
    /\ lower = RANGE_LOWER_BOUND
    /\ upper = RANGE_UPPER_BOUND
    /\ intMax = INT_MAX
    /\ count = lower
    /\ fcount = 0
    /\ out = <<>>
    /\ InitTestVars
    /\ InitSqrtVars

\* what main does with isPerfectNumber's return value
Tested(result) ==
    /\ perfect' = result
    /\ IF result
       THEN /\ pc' = "displayFactors"
            /\ count' = count
       ELSE /\ pc' = "loop"
            /\ count' = WrapAdd(count, 1, intMax)

\* for (...; count <= RANGE_UPPER_BOUND; count++) isPerfectNumber(count):
\* an odd number returns FALSE at once, any other enters the for loop
MainTest ==
    /\ pc = "loop"
    /\ count <= upper
    /\ tests' = tests + 1
    /\ number' = count
    /\ IF IsOdd(count)
       THEN /\ Tested(FALSE)
            /\ UNCHANGED <<pcount, sum>>
       ELSE /\ pcount' = 1
            /\ sum' = 0
            /\ pc' = "pairLoop"
            /\ UNCHANGED <<count, perfect>>
    /\ UNCHANGED <<lower, upper, intMax, fcount, out, sqrtVars>>

\* one pass of isPerfectNumber's loop
PairStep ==
    /\ pc = "pairLoop"
    /\ SqrtBound(pcount, number)
    /\ sum' = PairBody(number, pcount, sum, intMax)
    /\ pcount' = pcount + 1
    /\ UNCHANGED <<mainVars, tests, number, perfect, sqrtVars>>

\* isPerfectNumber's loop ends: sum -= number, return sum == number
PairEnd ==
    /\ pc = "pairLoop"
    /\ ~SqrtBound(pcount, number)
    /\ sum' = AdjustSum(sum, number, intMax)
    /\ Tested(sum' = number)
    /\ UNCHANGED <<lower, upper, intMax, fcount, out, tests, number, pcount, sqrtVars>>

\* the loop condition fails: return NO_ERRORS
MainExit ==
    /\ pc = "loop"
    /\ count > upper
    /\ pc' = "exit"
    /\ UNCHANGED <<lower, upper, intMax, count, fcount, out, testVars, sqrtVars>>

\* displayFactors(count): printf("Perfect number: %d = 1", ...); count = 2
DisplayFactorsBegin ==
    /\ pc = "displayFactors"
    /\ out' = Append(out, Line("displayFactors", count, <<1>>, Zero))
    /\ fcount' = 2
    /\ pc' = "factorsLoop"
    /\ UNCHANGED <<lower, upper, intMax, count, testVars, sqrtVars>>

\* one pass of displayFactors' loop
DisplayFactorsStep ==
    /\ pc = "factorsLoop"
    /\ fcount <= CDiv(count, 2)
    /\ out' = IF CRem(count, fcount) = 0
              THEN [out EXCEPT ![Len(out)].items = Append(@, fcount)]
              ELSE out
    /\ fcount' = fcount + 1
    /\ UNCHANGED <<pc, lower, upper, intMax, count, testVars, sqrtVars>>

\* a main that goes from the factors to the solver
DisplayFactorsEnd_SkipExpected ==
    /\ pc = "factorsLoop"
    /\ fcount > CDiv(count, 2)
    /\ pc' = "computeSquareRoot"
    /\ UNCHANGED <<lower, upper, intMax, count, fcount, out, testVars, sqrtVars>>

\* displayFactors' loop ends: printf(";\n") and return
DisplayFactorsEnd ==
    /\ pc = "factorsLoop"
    /\ fcount > CDiv(count, 2)
    /\ pc' = "displayExpectedSqrt"
    /\ UNCHANGED <<lower, upper, intMax, count, fcount, out, testVars, sqrtVars>>

\* displayExpectedSqrt(count)
DisplayExpectedSqrt ==
    /\ pc = "displayExpectedSqrt"
    /\ out' = Append(out, Line("displayExpectedSqrt", count, <<>>,
                               FSqrt(FFromInt(count), LDBL_MANT_DIG)))
    /\ pc' = "computeSquareRoot"
    /\ UNCHANGED <<lower, upper, intMax, count, fcount, testVars, sqrtVars>>

\* computeSquareRoot(count), up to the do
SqrtInit ==
    /\ pc = "computeSquareRoot"
    /\ radicand' = FFromInt(count)
    /\ guess' = getInitialGuess(radicand')
    /\ previousGuess' = Zero
    /\ iterations' = FirstIteration
    /\ diffs' = <<>>
    /\ pc' = "refine"
    /\ UNCHANGED <<lower, upper, intMax, count, fcount, out, testVars, returned>>

\* one pass of the do-while, with its test
SqrtStep ==
    /\ pc = "refine"
    /\ iterations < MaxIterations
    /\ previousGuess' = guess
    /\ guess' = Refine(radicand, guess)
    /\ iterations' = iterations + 1
    /\ diffs' = Append(diffs, AbsDiff(previousGuess', guess'))
    /\ pc' = IF Unconverged(diffs'[Len(diffs')]) THEN "refine" ELSE "print"
    /\ UNCHANGED <<lower, upper, intMax, count, fcount, out, testVars,
                   radicand, returned>>

\* the three printf of computeSquareRoot, its return (to double), and main's
\* count++
SqrtPrint ==
    /\ pc = "print"
    /\ out' = out \o <<Line("computeSquareRoot", count, <<>>, guess),
                       Line("iterations", count, <<iterations>>, Zero)>>
    /\ returned' = FConvert(guess, DBL_MANT_DIG)
    /\ count' = WrapAdd(count, 1, intMax)
    /\ pc' = "loop"
    /\ UNCHANGED <<lower, upper, intMax, fcount, testVars,
                   radicand, guess, previousGuess, iterations, diffs>>

Next ==
    \/ MainTest
    \/ PairStep
    \/ PairEnd
    \/ MainExit
    \/ DisplayFactorsBegin
    \/ DisplayFactorsStep
    \/ DisplayFactorsEnd
    \/ DisplayExpectedSqrt
    \/ SqrtInit
    \/ SqrtStep
    \/ SqrtPrint

Spec == Init /\ [][Next]_vars

-----------------------------------------------------------------------------
(* The same program built with other range bounds. *)

InitRange ==
    /\ pc = "loop"
    /\ lower \in (-MaxBound)..MaxBound
    /\ upper \in (-MaxBound)..MaxBound
    /\ intMax = INT_MAX
    /\ count = lower
    /\ fcount = 0
    /\ out = <<>>
    /\ InitTestVars
    /\ InitSqrtVars

SpecRange == InitRange /\ [][Next]_vars

-----------------------------------------------------------------------------
(* isPerfectNumber called with each positive int of a build whose int has   *)
(* MinWidth..MaxWidth bits.                                                 *)

InitWidth ==
    /\ pc = "loop"
    /\ \E w \in MinWidth..MaxWidth : intMax = 2 ^ (w - 1) - 1
    /\ count \in 1..intMax
    /\ lower = count
    /\ upper = count
    /\ fcount = 0
    /\ out = <<>>
    /\ InitTestVars
    /\ InitSqrtVars

NextWidth == MainTest \/ PairStep \/ PairEnd

SpecWidth == InitWidth /\ [][NextWidth]_vars

-----------------------------------------------------------------------------
(* displayFactors called with each of 1..MaxFactorArg. *)

InitFactors ==
    /\ pc = "displayFactors"
    /\ lower = RANGE_LOWER_BOUND
    /\ upper = RANGE_UPPER_BOUND
    /\ intMax = INT_MAX
    /\ count \in 1..MaxFactorArg
    /\ fcount = 0
    /\ out = <<>>
    /\ InitTestVars
    /\ InitSqrtVars

NextFactors == DisplayFactorsBegin \/ DisplayFactorsStep \/ DisplayFactorsEnd

SpecFactors == InitFactors /\ [][NextFactors]_vars

-----------------------------------------------------------------------------
(* computeSquareRoot called with each int of -MaxRadicand..MaxRadicand, the *)
(* four radicands of the default scan, and 100.                             *)

Radicands == ((-MaxRadicand)..MaxRadicand) \cup {28, 100, 496, 8128}

InitSqrt ==
    /\ pc = "computeSquareRoot"
    /\ lower = RANGE_LOWER_BOUND
    /\ upper = RANGE_UPPER_BOUND
    /\ intMax = INT_MAX
    /\ count \in Radicands
    /\ fcount = 0
    /\ out = <<>>
    /\ InitTestVars
    /\ InitSqrtVars

NextSqrt == SqrtInit \/ SqrtStep \/ SqrtPrint

SpecSqrt == InitSqrt /\ [][NextSqrt]_vars

-----------------------------------------------------------------------------
(* Reference definitions the properties are stated with. *)

\* the sum of the members of S, all of them in lo..hi
RECURSIVE SumBetween(_, _, _)
SumBetween(S, lo, hi) ==
    IF S = {} THEN 0
    ELSE IF lo = hi THEN lo
    ELSE LET mid == (lo + hi) \div 2
         IN  SumBetween({x \in S : x <= mid}, lo, mid)
             + SumBetween({x \in S : x > mid}, mid + 1, hi)

\* the brute-force reference: the sum of every d in 1..n-1 that divides n
NaiveSum(n) == SumBetween({d \in 1..(n - 1) : n % d = 0}, 1, n)

\* an isPerfectNumber call has returned, and number and perfect are its
\* argument and result
TestReturned == tests > 0 /\ pc # "pairLoop"

\* the lines of out whose kind is in kinds
LinesOf(kinds) == {i \in 1..Len(out) : out[i].kind \in kinds}

\* the candidates for which some line has been written
Reported == {out[i].arg : i \in 1..Len(out)}

-----------------------------------------------------------------------------
(* C1: for every n of the scan range 1..10000, isPerfectNumber(n) returns  *)
(* TRUE exactly when the sum of the d in 1..n-1 dividing n equals n; it    *)
(* returns FALSE for 1 and 2 and TRUE for 28.                              *)
C1_AgreesWithBruteForce ==
    TestReturned =>
        /\ perfect <=> (NaiveSum(number) = number)
        /\ number \in {1, 2} => ~perfect
        /\ number = 28 => perfect

C1_Witness == TestReturned /\ number = 28 /\ perfect /\ pc = "displayFactors"

(* C2: when main has scanned 1..10000 to the end, the candidates reported  *)
(* are exactly 6, 28, 496 and 8128, each even, and at no time is any other *)
(* candidate reported.                                                     *)
C2_ReportsExactlyFour ==
    /\ Reported \subseteq {6, 28, 496, 8128}
    /\ \A n \in Reported : n % 2 = 0
    /\ pc = "exit" =>
           /\ Reported = {6, 28, 496, 8128}
           /\ Cardinality(LinesOf({"displayFactors"})) = 4

C2_Witness == pc = "exit" /\ count = RANGE_UPPER_BOUND + 1 /\ Len(out) = 16

(* C6: for every even n of the scan range, the sum isPerfectNumber's       *)
(* pairing loop accumulates, less n, equals the sum of the d in 1..n-1     *)
(* dividing n; so it does for every number declared perfect.               *)
C6_PairingEqualsNaive ==
    (TestReturned /\ ~IsOdd(number)) => sum = NaiveSum(number)

C6_Witness ==
    /\ TestReturned
    /\ number = 36 /\ sum = 55 /\ ~perfect
    /\ \E i \in 1..Len(out) : out[i].arg = 28

-----------------------------------------------------------------------------
\* the block of four lines the k-th report consists of, in the order of
\* main's three calls
BlockKinds == <<"displayFactors", "displayExpectedSqrt",
                "computeSquareRoot", "iterations">>

(* C7: the reports are written in strictly ascending order of candidate;   *)
(* the k-th call of isPerfectNumber tests the k-th candidate of the range, *)
(* so each candidate is tested exactly once; each report is the factors    *)
(* line, then the expected root, then the computed root with its iteration *)
(* count, all for one candidate, and no line of another report comes       *)
(* between them.                                                           *)
C7_OrderedReports ==
    /\ \A i \in 1..Len(out) :
           /\ out[i].kind = BlockKinds[((i - 1) % 4) + 1]
           /\ (i - 1) % 4 # 0 => out[i].arg = out[i - 1].arg
           /\ (i > 1 /\ (i - 1) % 4 = 0) => out[i].arg > out[i - 1].arg
    /\ tests > 0 => number = lower + (tests - 1)
    /\ pc \in {"loop", "exit"} => tests = count - lower
    /\ pc \notin {"loop", "exit"} => count = number
    /\ pc = "exit" => tests = (upper - lower) + 1

C7_Witness ==
    /\ pc = "loop" /\ count = 497 /\ tests = 496
    /\ Len(out) = 12 /\ out[5].arg = 28 /\ out[12].arg = 496

-----------------------------------------------------------------------------
\* the sum of the divisors of number, n included, did not fit the int
SumOverflowed == NaiveSum(number) + number > intMax

-----------------------------------------------------------------------------
\* s is strictly ascending
Ascending(s) == \A i \in 1..(Len(s) - 1) : s[i] < s[i + 1]

\* displayFactors has printed its whole line
FactorsPrinted == pc = "displayExpectedSqrt" /\ Len(out) = 1

(* C3: for every positive n, the divisors displayFactors(n) prints are     *)
(* strictly ascending, start with 1, do not contain n, and after the 1 are *)
(* exactly the d of 2..n/2 that divide n; for 28 they are 1, 2, 4, 7, 14,  *)
(* which sum to 28.                                                        *)
C3_ProperDivisors ==
    (FactorsPrinted /\ count > 0) =>
        LET items == out[1].items
        IN  /\ Ascending(items)
            /\ items[1] = 1
            /\ \A i \in 1..Len(items) : items[i] # count
            /\ {items[i] : i \in 2..Len(items)}
                   = {d \in 2..(count \div 2) : count % d = 0}
            /\ Len(items) = 1 + Cardinality({d \in 2..(count \div 2) : count % d = 0})
            /\ count = 28 => items = <<1, 2, 4, 7, 14>>

-----------------------------------------------------------------------------
\* computeSquareRoot has left its loop
SqrtLeftLoop == pc \in {"print", "loop"} /\ iterations > 0

\* x is zero or negative
NonPositive(x) == x.k = "fin" /\ (x.m = <<>> \/ x.neg)

\* the InvalidInput outcome of a call
InvalidInput == pc = "InvalidInput"

(* C4: a call of the solver with a radicand that is zero or negative ends  *)
(* in InvalidInput: it neither prints or returns a NaN nor goes on         *)
(* refining without end.                                                   *)
C4_NonPositiveRejected ==
    (pc # "computeSquareRoot" /\ NonPositive(radicand)) =>
        /\ guess.k # "nan"
        /\ returned.k # "nan"
        /\ \A i \in 1..Len(out) : out[i].value.k # "nan"
        /\ SqrtLeftLoop => InvalidInput

(* C9: iterations is 1 before the first refinement and grows by one with   *)
(* each refinement; the refinement runs once before the convergence test   *)
(* is first evaluated; so when the loop is left iterations is one more     *)
(* than the number of refinements and at least 2, also when the initial    *)
(* guess is the root already.                                              *)
C9_IterationCount ==
    /\ pc = "refine" =>
           /\ iterations = 1 + Len(diffs)
           /\ diffs = <<>> => iterations = 1
    /\ SqrtLeftLoop =>
           /\ Len(diffs) >= 1
           /\ iterations = 1 + Len(diffs)
           /\ iterations >= 2

C9_Witness ==
    /\ pc = "print" /\ count = 100
    /\ guess = FFromInt(10) /\ previousGuess = FFromInt(10)
    /\ iterations = 2

-----------------------------------------------------------------------------
(* C5: with a bound that is zero or negative, or with the lower bound      *)
(* above the upper, main treats the range as empty: isPerfectNumber is     *)
(* called for no candidate and nothing is written.                         *)
C5_BadRangeIsEmpty ==
    (lower <= 0 \/ upper <= 0 \/ lower > upper) =>
        (tests = 0 /\ out = <<>>)

-----------------------------------------------------------------------------
\* computeSquareRoot has just returned to main
SqrtReturned ==
    /\ pc = "loop" /\ out # <<>>
    /\ out[Len(out)].kind = "iterations"
    /\ count = out[Len(out)].arg + 1

\* |x - sqrt(n)| <= 10^-digits for the float x = m * 2^e and the integer
\* n > 0, decided exactly on integers: with k = max(0, -e), M = x * 2^k and
\* D = 10^digits it is (M * D - 2^k)^2 <= n * (2^k * D)^2 <= (M * D + 2^k)^2
WithinOfSqrt(x, n, digits) ==
    /\ x.k = "fin" /\ ~x.neg
    /\ LET k    == IF x.e < 0 THEN -x.e ELSE 0
           M    == BShl(x.m, x.e + k)
           D    == BPow10(digits)
           MD   == BMul(M, D)
           unit == BShl(BFromInt(1), k)
           den  == BMul(unit, D)
           mid  == BMul(BFromInt(n), BMul(den, den))
           hi   == BAdd(MD, unit)
       IN  /\ BCmp(mid, BMul(hi, hi)) <= 0
           /\ \/ BCmp(MD, unit) < 0
              \/ LET lo == BSub(MD, unit) IN BCmp(BMul(lo, lo), mid) <= 0

\* every difference but the last was above the limit, the last was not
StoppedAtFirst ==
    /\ diffs # <<>>
    /\ \A i \in 1..Len(diffs) : Unconverged(diffs[i]) <=> i < Len(diffs)

(* C10: for each radicand of the default scan, 6, 28, 496 and 8128, the    *)
(* refinement ends, at the first step whose guess differs from the         *)
(* previous one by at most 10^-15; the value returned is within 10^-15 of  *)
(* the square root; for 6 the iteration count is below 10.                 *)
C10_ConvergesWithinPrecision ==
    /\ pc = "refine" => iterations < MaxIterations
    /\ SqrtReturned =>
           LET n == out[Len(out)].arg
           IN  /\ StoppedAtFirst
               /\ WithinOfSqrt(returned, n, PRECISION)
               /\ n = 6 => iterations < 10

=============================================================================
